---- MODULE Spec2Model ----
(***************************************************************************)
(* A model of src/vs/base/browser/ui/iconLabel/iconLabel.ts: the memoizing *)
(* DOM node wrapper FastLabelNode, the IconLabel widget (plain label node, *)
(* i.e. constructed without supportHighlights) and FileLabel.              *)
(*                                                                         *)
(* Representation.  A JavaScript string is a sequence of characters, so '' *)
(* is <<>>.  An optional value (an omitted argument, an unset field) is    *)
(* Undefined or Some(v).  A class name is the sequence of the class tokens *)
(* that classes.join(' ') separates by blanks.  A CSS colour string is     *)
(* <<>> (unset) or the tuple ColorToString builds.                         *)
(***************************************************************************)
EXTENDS Integers, Sequences, FiniteSets, TLC

VARIABLES
    domNode,          \* IconLabel.domNode: FastLabelNode of the container
    labelNode,        \* IconLabel.labelNode: FastLabelNode of a.label-name
    descriptionNode,  \* IconLabel.descriptionNode: FastLabelNode of span.label-description
    badgeNode,        \* IconLabel.badgeNode: Undefined or Some(span element)
    element,          \* the container's style and its appended badge children
    created,          \* number of document.createElement('span') calls so far
    writes,           \* the DOM write points the last operation assigned
    last,             \* the last operation on the widget and its arguments
    node,             \* a FastLabelNode used on its own
    nodeCall,         \* the last setter call on node, and whether it wrote
    listeners,        \* click listeners attached to the label / description element
    handles,          \* the disposal handles onClick returned
    calls,            \* per handle, how often its callback was invoked
    click             \* number of clicks dispatched and the last click's target

vars == <<domNode, labelNode, descriptionNode, badgeNode, element, created, writes,
          last, node, nodeCall, listeners, handles, calls, click>>

widgetVars == <<domNode, labelNode, descriptionNode, badgeNode, element, created,
                writes, last>>
nodeVars == <<node, nodeCall>>
clickVars == <<listeners, handles, calls, click>>

----------------------------------------------------------------------------
(* Optional values *)

Undefined == <<>>
Some(v) == <<v>>
Has(o) == o # Undefined
Val(o) == o[1]

\* `s || ''` for an optional string
OrEmpty(s) == IF Has(s) THEN Val(s) ELSE <<>>
\* `!s` for an optional string: undefined and '' are falsy
Falsy(s) == ~Has(s) \/ Val(s) = <<>>

----------------------------------------------------------------------------
(* Color (vs/base/common/color): an RGB triple *)

ColorToString(c) == <<"rgb", c[1], c[2], c[3]>>

IsDarker(c) == (c[1] * 299 + c[2] * 587 + c[3] * 114) \div 1000 < 128

ColorWhite == <<255, 255, 255>>
ColorBlack == <<0, 0, 0>>

----------------------------------------------------------------------------
(* FastLabelNode *)

\* a fresh DOM element as dom.$ builds it
NewElement(cls) ==
    [textContent |-> <<>>, className |-> cls, title |-> <<>>, marginLeft |-> ""]

\* `private _empty: boolean;` is never initialised
InitEmptySetTrue == Some(TRUE)
InitEmpty == Undefined

\* constructor: the private fields are declared and never initialised
NewFastLabelNode(el) ==
    [disposed |-> FALSE, _textContent |-> Undefined, _className |-> Undefined,
     _title |-> Undefined, _empty |-> InitEmpty, element |-> el]

\* the guard of `set textContent`
SkipTextContentNoDisposedGuard(n, content) == Some(content) = n._textContent
SkipTextContent(n, content) == n.disposed \/ Some(content) = n._textContent

SetTextContent(n, content) ==
    IF SkipTextContent(n, content) THEN n
    ELSE [n EXCEPT !._textContent = Some(content),
                   !.element.textContent = content]

SkipClassName(n, className) == n.disposed \/ Some(className) = n._className

SetClassName(n, className) ==
    IF SkipClassName(n, className) THEN n
    ELSE [n EXCEPT !._className = Some(className),
                   !.element.className = className]

SkipTitle(n, title) == n.disposed \/ Some(title) = n._title

SetTitle(n, title) ==
    IF SkipTitle(n, title) THEN n
    ELSE [n EXCEPT !._title = Some(title),
                   !.element.title = title]

SkipEmpty(n, empty) == n.disposed \/ Some(empty) = n._empty

\* style.marginLeft = empty ? '0' : null  (null clears the property)
MarginOf(empty) == IF empty THEN "0" ELSE ""

SetEmpty(n, empty) ==
    IF SkipEmpty(n, empty) THEN n
    ELSE [n EXCEPT !._empty = Some(empty),
                   !.element.marginLeft = MarginOf(empty)]

DisposeNode(n) == [n EXCEPT !.disposed = TRUE]

----------------------------------------------------------------------------
(* IconLabel.setValue *)

BaseClass == "monaco-icon-label"

\* classes = ['monaco-icon-label', ...extraClasses, 'italic'?]
ClassesOf(options) ==
    IF ~Has(options) THEN <<BaseClass>>
    ELSE <<BaseClass>>
         \o (IF Has(Val(options).extraClasses) THEN Val(Val(options).extraClasses) ELSE <<>>)
         \o (IF Val(options).italic THEN <<"italic">> ELSE <<>>)

\* options && options.title ? options.title : ''
TitleOf(options) ==
    IF Has(options) /\ ~Falsy(Val(options).title) THEN Val(Val(options).title) ELSE <<>>

\* options.color ? options.color.toString() : ''
TextColorOf(options) ==
    IF Has(Val(options).color) THEN ColorToString(Val(Val(options).color)) ELSE <<>>

\* whether setValue assigns element.style.color (line 126: only inside `if (options)`)
AssignsTextColor(options) == Has(options)

\* options && options.badge
WantsBadge(options) == Has(options) /\ Has(Val(options).badge)

\* the guard of the lazy creation, `!this.badgeNode`
MustCreateAlways(badge) == TRUE
MustCreate(badge) == ~Has(badge)

\* the badge's foreground: (color.isDarker() ? Color.white : Color.black).toString()
BadgeForegroundInverted(c) == ColorToString(IF IsDarker(c) THEN ColorBlack ELSE ColorWhite)
BadgeForeground(c) == ColorToString(IF IsDarker(c) THEN ColorWhite ELSE ColorBlack)

\* document.createElement('span')
NewSpan(id) ==
    [id |-> id, className |-> <<>>, backgroundColor |-> <<>>, color |-> <<>>,
     innerHTML |-> <<>>, title |-> <<>>, display |-> ""]

\* the display dom.hide leaves on the badge
HiddenDisplay(d) == "none"

\* The widget as one value, for the operators that compute a whole call.
Widget ==
    [domNode |-> domNode, labelNode |-> labelNode, descriptionNode |-> descriptionNode,
     badgeNode |-> badgeNode, element |-> element, created |-> created]

\* lines 125-149: class list, text colour, title, label and description
ApplyTexts(w, label, description, options) ==
    LET dn == SetTitle(SetClassName(w.domNode, ClassesOf(options)), TitleOf(options))
        ln == SetTextContent(w.labelNode, OrEmpty(label))
        sn == SetEmpty(SetTextContent(w.descriptionNode, OrEmpty(description)),
                       Falsy(description))
        el == IF AssignsTextColor(options)
              THEN [w.element EXCEPT !.color = TextColorOf(options)]
              ELSE w.element
        wr == (IF AssignsTextColor(options) THEN {"element.style.color"} ELSE {})
              \cup (IF ~SkipClassName(w.domNode, ClassesOf(options))
                    THEN {"element.className"} ELSE {})
              \cup (IF ~SkipTitle(SetClassName(w.domNode, ClassesOf(options)), TitleOf(options))
                    THEN {"element.title"} ELSE {})
              \cup (IF ~SkipTextContent(w.labelNode, OrEmpty(label))
                    THEN {"label.textContent"} ELSE {})
              \cup (IF ~SkipTextContent(w.descriptionNode, OrEmpty(description))
                    THEN {"description.textContent"} ELSE {})
              \cup (IF ~SkipEmpty(SetTextContent(w.descriptionNode, OrEmpty(description)),
                                  Falsy(description))
                    THEN {"description.style.marginLeft"} ELSE {})
    IN [w |-> [w EXCEPT !.domNode = dn, !.labelNode = ln, !.descriptionNode = sn,
                        !.element = el],
        writes |-> wr, threw |-> FALSE]

\* lines 151-167: the badge.  options.color.toString() on an absent color is a
\* TypeError raised at line 155, after lines 153-154 have run.
ApplyBadge(r, options) ==
    LET w == r.w IN
    IF WantsBadge(options) THEN
        LET o == Val(options)
            b == Val(o.badge)
        IN IF MustCreate(w.badgeNode) /\ ~Has(o.color) THEN
               [w |-> [w EXCEPT !.badgeNode =
                           Some([NewSpan(w.created + 1) EXCEPT !.className = <<"label-badge">>]),
                                !.created = w.created + 1],
                writes |-> r.writes \cup {"badge.create", "badge.className"},
                threw |-> TRUE]
           ELSE
               LET fresh == MustCreate(w.badgeNode)
                   c == Val(o.color)
                   span == IF fresh
                           THEN [NewSpan(w.created + 1) EXCEPT
                                    !.className = <<"label-badge">>,
                                    !.backgroundColor = ColorToString(c),
                                    !.color = BadgeForeground(c)]
                           ELSE Val(w.badgeNode)
                   el == IF fresh
                         THEN [w.element EXCEPT !.display = "flex",
                                                !.children = @ \cup {span.id}]
                         ELSE w.element
               IN [w |-> [w EXCEPT !.badgeNode =
                              Some([span EXCEPT !.innerHTML = b.letter,
                                                !.title = b.title,
                                                !.display = ""]),
                                   !.element = el,
                                   !.created = IF fresh THEN @ + 1 ELSE @],
                   writes |-> r.writes
                       \cup (IF fresh
                             THEN {"badge.create", "badge.className",
                                   "badge.style.backgroundColor", "badge.style.color",
                                   "element.style.display", "element.appendChild"}
                             ELSE {})
                       \cup {"badge.innerHTML", "badge.title", "badge.style.display"},
                   threw |-> FALSE]
    ELSE IF Has(w.badgeNode) THEN
        [w |-> [w EXCEPT !.badgeNode =
                   Some([Val(w.badgeNode) EXCEPT !.display = HiddenDisplay(@)])],
         writes |-> r.writes \cup {"badge.style.display"},
         threw |-> FALSE]
    ELSE r

SetValueOp(w, label, description, options) ==
    ApplyBadge(ApplyTexts(w, label, description, options), options)

DisposeOp(w) ==
    [w EXCEPT !.domNode = DisposeNode(@), !.labelNode = DisposeNode(@),
              !.descriptionNode = DisposeNode(@)]

----------------------------------------------------------------------------
(* Inputs *)

\* (label, description) as callers pass them
Texts ==
    {<<Undefined, Undefined>>, <<Some(<<"a">>), Some(<<>>)>>,
     <<Some(<<"a">>), Some(<<"d">>)>>}
Colors == {<<255, 0, 0>>, <<255, 255, 0>>}
Badges == {[letter |-> <<"M">>, title |-> <<"Modified">>],
           [letter |-> <<"A">>, title |-> <<"Added">>]}

\* title, extraClasses and italic as callers combine them
Styles ==
    {[title |-> Undefined, extraClasses |-> Undefined, italic |-> FALSE],
     [title |-> Some(<<"t">>), extraClasses |-> Some(<<"x">>), italic |-> FALSE],
     [title |-> Undefined, extraClasses |-> Undefined, italic |-> TRUE]}

OptionValues ==
    {[title |-> s.title, extraClasses |-> s.extraClasses, italic |-> s.italic,
      color |-> c, badge |-> b] :
        s \in Styles,
        c \in {Undefined} \cup {Some(x) : x \in Colors},
        b \in {Undefined} \cup {Some(x) : x \in Badges}}

Options == {Undefined} \cup {Some(o) : o \in OptionValues}

----------------------------------------------------------------------------
(* The widget's operations *)

\* the state the IconLabel constructor leaves
NewWidget ==
    [domNode |-> NewFastLabelNode(NewElement(<<BaseClass>>)),
     labelNode |-> NewFastLabelNode(NewElement(<<"label-name">>)),
     descriptionNode |-> NewFastLabelNode(NewElement(<<"label-description">>)),
     badgeNode |-> Undefined,
     element |-> [color |-> <<>>, display |-> "", children |-> {}],
     created |-> 0]

Install(w) ==
    /\ domNode' = w.domNode
    /\ labelNode' = w.labelNode
    /\ descriptionNode' = w.descriptionNode
    /\ badgeNode' = w.badgeNode
    /\ element' = w.element
    /\ created' = w.created

SetValue(label, description, options) ==
    LET r == SetValueOp(Widget, label, description, options) IN
    /\ Install(r.w)
    /\ writes' = r.writes
    /\ last' = [op |-> "setValue", label |-> label, description |-> description,
                options |-> options, threw |-> r.threw]
    /\ UNCHANGED <<nodeVars, clickVars>>

Dispose ==
    /\ Install(DisposeOp(Widget))
    /\ writes' = {}
    /\ last' = [last EXCEPT !.op = "dispose", !.threw = FALSE]
    /\ UNCHANGED <<nodeVars, clickVars>>

NoCall == [op |-> "new", label |-> Undefined, description |-> Undefined,
           options |-> Undefined, threw |-> FALSE]

InitWidget ==
    /\ domNode = NewWidget.domNode
    /\ labelNode = NewWidget.labelNode
    /\ descriptionNode = NewWidget.descriptionNode
    /\ badgeNode = NewWidget.badgeNode
    /\ element = NewWidget.element
    /\ created = NewWidget.created
    /\ writes = {}
    /\ last = NoCall

InitNode ==
    /\ node = NewFastLabelNode(NewElement(<<>>))
    /\ nodeCall = [setter |-> "none", wrote |-> FALSE, ever |-> {}]

InitClick ==
    /\ listeners = [label |-> {}, description |-> {}]
    /\ handles = <<>>
    /\ calls = <<>>
    /\ click = [n |-> 0, target |-> "none"]

Init == InitWidget /\ InitNode /\ InitClick

Next ==
    \/ \E t \in Texts, o \in Options : SetValue(t[1], t[2], o)
    \/ Dispose

Spec == Init /\ [][Next]_vars

----------------------------------------------------------------------------
(* A FastLabelNode on its own: the four setters and dispose *)

NodeTexts == {<<>>, <<"a">>, <<"b">>}
NodeClassNames == {<<"c">>, <<"c", "d">>}
NodeTitles == {<<>>, <<"t">>}

NodeCalled(setter, arg, wrote) ==
    nodeCall' = [setter |-> setter, arg |-> arg, wrote |-> wrote,
                 ever |-> IF wrote THEN nodeCall.ever \cup {setter} ELSE nodeCall.ever]

NodeSetTextContent(content) ==
    /\ node' = SetTextContent(node, content)
    /\ NodeCalled("textContent", content, ~SkipTextContent(node, content))
    /\ UNCHANGED <<widgetVars, clickVars>>

NodeSetClassName(className) ==
    /\ node' = SetClassName(node, className)
    /\ NodeCalled("className", className, ~SkipClassName(node, className))
    /\ UNCHANGED <<widgetVars, clickVars>>

NodeSetTitle(title) ==
    /\ node' = SetTitle(node, title)
    /\ NodeCalled("title", title, ~SkipTitle(node, title))
    /\ UNCHANGED <<widgetVars, clickVars>>

NodeSetEmpty(empty) ==
    /\ node' = SetEmpty(node, empty)
    /\ NodeCalled("empty", empty, ~SkipEmpty(node, empty))
    /\ UNCHANGED <<widgetVars, clickVars>>

NodeDispose ==
    /\ node' = DisposeNode(node)
    /\ nodeCall' = [setter |-> "dispose", arg |-> Undefined, wrote |-> FALSE,
                    ever |-> nodeCall.ever]
    /\ UNCHANGED <<widgetVars, clickVars>>

NextNode ==
    \/ \E content \in NodeTexts : NodeSetTextContent(content)
    \/ \E className \in NodeClassNames : NodeSetClassName(className)
    \/ \E title \in NodeTitles : NodeSetTitle(title)
    \/ \E empty \in BOOLEAN : NodeSetEmpty(empty)
    \/ NodeDispose

SpecNode == Init /\ [][NextNode]_vars

----------------------------------------------------------------------------
(* IconLabel.onClick, the handle it returns, and clicks *)

MaxHandles == 2
MaxClicks == 3

\* the elements onClick adds a click listener to (lines 110-111)
OnClickTargetsLabelOnly == {"label"}
OnClickTargets == {"label", "description"}

OnClick ==
    /\ Len(handles) < MaxHandles
    /\ LET h == Len(handles) + 1 IN
       /\ handles' = Append(handles, "active")
       /\ calls' = Append(calls, 0)
       /\ listeners' = [t \in DOMAIN listeners |->
                           IF t \in OnClickTargets THEN listeners[t] \cup {h}
                           ELSE listeners[t]]
    /\ UNCHANGED <<click, widgetVars, nodeVars>>

\* combinedDisposable([...]).dispose(): disposes every listener of the handle
DisposeHandle(h) ==
    /\ handles' = [handles EXCEPT ![h] = "disposed"]
    /\ listeners' = [t \in DOMAIN listeners |-> listeners[t] \ {h}]
    /\ UNCHANGED <<calls, click, widgetVars, nodeVars>>

\* the listeners a click on `target` reaches; the container carries none
ListenersAt(target) == IF target \in DOMAIN listeners THEN listeners[target] ELSE {}

ClickTargets == {"label", "description", "container"}

Click(target) ==
    /\ click.n < MaxClicks
    /\ click' = [n |-> click.n + 1, target |-> target]
    /\ calls' = [h \in DOMAIN calls |->
                    IF h \in ListenersAt(target) THEN calls[h] + 1 ELSE calls[h]]
    /\ UNCHANGED <<listeners, handles, widgetVars, nodeVars>>

NextClick ==
    \/ OnClick
    \/ \E h \in DOMAIN handles : DisposeHandle(h)
    \/ \E target \in ClickTargets : Click(target)

SpecClick == Init /\ [][NextClick]_vars

----------------------------------------------------------------------------
(* FileLabel *)

MaxPathLen == 3
PathChars == {"/", "a"}

RECURSIVE PathsOfLen(_)
PathsOfLen(n) ==
    IF n = 0 THEN {<<>>}
    ELSE {Append(p, c) : p \in PathsOfLen(n - 1), c \in PathChars}

\* file.fsPath
Files == UNION {PathsOfLen(n) : n \in 0..MaxPathLen}

\* path.lastIndexOf('/'), -1 when there is none
LastSlash(path) ==
    LET at == {i \in 1..Len(path) : path[i] = "/"}
    IN IF at = {} THEN -1 ELSE (CHOOSE i \in at : \A j \in at : j <= i) - 1

\* paths.dirname
RECURSIVE Dirname(_)
Dirname(path) ==
    LET i == LastSlash(path) IN
    IF i = -1 THEN <<".">>
    ELSE IF i = 0 THEN <<path[1]>>
    ELSE IF i = Len(path) - 1 THEN Dirname(SubSeq(path, 1, Len(path) - 1))
    ELSE SubSeq(path, 1, i)

\* paths.basename
RECURSIVE Basename(_)
Basename(path) ==
    LET i == LastSlash(path) IN
    IF i = -1 THEN path
    ELSE IF i = Len(path) - 1 THEN Basename(SubSeq(path, 1, Len(path) - 1))
    ELSE SubSeq(path, i + 2, Len(path))

\* getPathLabel(parent, provider, userHome): the formatter's output for a path,
\* kept apart from the path itself
PathLabel(path) == <<"label:">> \o path

\* parent && parent !== '.' ? getPathLabel(parent, provider, userHome) : ''
FileDescriptionAlways(parent) == PathLabel(parent)
FileDescription(parent) ==
    IF parent # <<>> /\ parent # <<".">> THEN PathLabel(parent) ELSE <<>>

\* { title: file.fsPath }
FileOptions(file) ==
    Some([title |-> Some(file), extraClasses |-> Undefined, italic |-> FALSE,
          color |-> Undefined, badge |-> Undefined])

SetFileOp(w, file) ==
    SetValueOp(w, Some(Basename(file)), Some(FileDescription(Dirname(file))),
               FileOptions(file))

FileCall(file, r) ==
    [op |-> "setFile", file |-> file, threw |-> r.threw]

SetFile(file) ==
    LET r == SetFileOp(Widget, file) IN
    /\ Install(r.w)
    /\ writes' = r.writes
    /\ last' = FileCall(file, r)
    /\ UNCHANGED <<nodeVars, clickVars>>

\* constructor: super(container); this.setFile(file, provider, userHome)
InitFile ==
    /\ \E file \in Files :
         LET r == SetFileOp(NewWidget, file) IN
         /\ domNode = r.w.domNode
         /\ labelNode = r.w.labelNode
         /\ descriptionNode = r.w.descriptionNode
         /\ badgeNode = r.w.badgeNode
         /\ element = r.w.element
         /\ created = r.w.created
         /\ writes = r.writes
         /\ last = FileCall(file, r)
    /\ InitNode
    /\ InitClick

NextFile ==
    \/ \E file \in Files : SetFile(file)
    \/ Dispose

SpecFile == InitFile /\ [][NextFile]_vars

----------------------------------------------------------------------------
(* Properties of setValue and dispose, checked under Spec *)

\* everything of the DOM the widget can write
Dom == <<domNode.element, labelNode.element, descriptionNode.element, badgeNode, element>>

LastArgs == <<last.label, last.description, last.options>>

BadgeAttached == Has(badgeNode) /\ Val(badgeNode).id \in element.children

\* C1: once dispose() has been called, every later setValue call throws nothing and
\* changes nothing of the DOM.
C1_DisposedSetValueIsNoOp ==
    [][(domNode.disposed /\ last'.op = "setValue") => (Dom' = Dom /\ ~last'.threw)]_vars

\* C2: on a widget that is not disposed, a setValue call with the arguments of the
\* setValue call right before it assigns no DOM write point.
C2_RepeatedCallWritesNothing ==
    [][(/\ ~domNode.disposed
        /\ last.op = "setValue" /\ last'.op = "setValue"
        /\ <<last'.label, last'.description, last'.options>> = LastArgs)
       => writes' = {}]_vars

\* C3: at most one badge element is ever created; the first call carrying a badge
\* option creates it and no other call does; once it exists it is never replaced
\* nor detached; a later call without a badge option hides it, a later call with
\* one shows the same element with that call's letter and title.
C3_BadgeLifecycle ==
    [][/\ created' <= 1
       /\ Has(badgeNode) =>
            /\ Has(badgeNode') /\ Val(badgeNode').id = Val(badgeNode).id
            /\ created' = created
            /\ BadgeAttached => BadgeAttached'
       /\ last'.op = "setValue" =>
            /\ (~Has(badgeNode) /\ WantsBadge(last'.options)) =>
                   (Has(badgeNode') /\ created' = 1)
            /\ (~Has(badgeNode) /\ ~WantsBadge(last'.options)) =>
                   (~Has(badgeNode') /\ created' = 0)
            /\ (Has(badgeNode) /\ ~WantsBadge(last'.options)) =>
                   Val(badgeNode').display = "none"
            /\ (Has(badgeNode) /\ WantsBadge(last'.options)) =>
                   /\ Val(badgeNode').display = ""
                   /\ Val(badgeNode').innerHTML = Val(Val(last'.options).badge).letter
                   /\ Val(badgeNode').title = Val(Val(last'.options).badge).title
      ]_vars

\* an existing badge shown again by a call that did not create it
C3_Witness ==
    /\ last.op = "setValue" /\ WantsBadge(last.options)
    /\ "badge.create" \notin writes /\ "badge.style.display" \in writes
    /\ created = 1 /\ BadgeAttached
    /\ Val(badgeNode).display = ""
    /\ Val(badgeNode).innerHTML = <<"A">>

\* the colours a badge of color c is meant to carry
BadgeHasColors(b, c) ==
    /\ b.backgroundColor = ColorToString(c)
    /\ b.color = ColorToString(IF IsDarker(c) THEN <<255, 255, 255>> ELSE <<0, 0, 0>>)

\* C4 as stated: after any setValue call requesting a badge with color C the badge's
\* background is C and its foreground white for a dark C, black otherwise.  (Stated
\* of an attached badge, one a returning call created, so that a badge left behind
\* by a faulting call is none of its cases.)
C4_EveryBadgeRequestColors ==
    (/\ last.op = "setValue" /\ WantsBadge(last.options) /\ Has(Val(last.options).color)
     /\ BadgeAttached)
        => BadgeHasColors(Val(badgeNode), Val(Val(last.options).color))

\* C4 amended: the call that creates the badge element with color C gives it
\* background C and the contrasting foreground; a call made while a badge element
\* exists leaves the badge's two colours as they were.
C4_CreationColors ==
    [][/\ (/\ last'.op = "setValue" /\ ~Has(badgeNode)
           /\ WantsBadge(last'.options) /\ Has(Val(last'.options).color))
          => BadgeHasColors(Val(badgeNode'), Val(Val(last'.options).color))
       /\ Has(badgeNode) =>
            /\ Val(badgeNode').backgroundColor = Val(badgeNode).backgroundColor
            /\ Val(badgeNode').color = Val(badgeNode).color
      ]_vars

\* a badge created dark, then requested again with the light color
C4_Witness ==
    /\ last.op = "setValue" /\ WantsBadge(last.options)
    /\ Val(last.options).color = Some(<<255, 255, 0>>)
    /\ BadgeAttached
    /\ BadgeHasColors(Val(badgeNode), <<255, 0, 0>>)
    /\ Val(badgeNode).color = <<"rgb", 255, 255, 255>>

\* C5: after a setValue call that returned, on a widget not disposed, class list,
\* title, text colour, label, description and badge visibility are those the
\* call's own arguments give.
C5_AppliedWholesale ==
    (last.op = "setValue" /\ ~last.threw /\ ~domNode.disposed) =>
        /\ domNode.element.className = ClassesOf(last.options)
        /\ domNode.element.title = TitleOf(last.options)
        /\ element.color = (IF Has(last.options) THEN TextColorOf(last.options) ELSE <<>>)
        /\ labelNode.element.textContent = OrEmpty(last.label)
        /\ descriptionNode.element.textContent = OrEmpty(last.description)
        /\ (Has(badgeNode) /\ Val(badgeNode).display = "") <=> WantsBadge(last.options)

\* C6: after every setValue call on a widget not disposed, the description's left
\* margin is '0' exactly when the description argument was undefined or ''.
C6_EmptyDescriptionCollapsesMargin ==
    (last.op = "setValue" /\ ~descriptionNode.disposed) =>
        (descriptionNode.element.marginLeft = "0" <=> Falsy(last.description))

\* the margin collapsed by a call, after an earlier call had cleared it
C6_Witness ==
    /\ last.op = "setValue" /\ ~descriptionNode.disposed
    /\ last.description = Some(<<>>)
    /\ "description.style.marginLeft" \in writes
    /\ "description.textContent" \in writes
    /\ descriptionNode.element.marginLeft = "0"

\* C10: whenever the widget holds a badge element, the element is a child of the
\* container.
C10_HeldBadgeIsAttached == Has(badgeNode) => BadgeAttached

----------------------------------------------------------------------------
(* Properties of onClick, checked under SpecClick *)

\* C7: a click on the label or on the description element invokes the callback of
\* every handle not yet disposed exactly once, and that of no disposed handle.
C7_ClickInvokesLiveCallbacksOnce ==
    [][(click'.n = click.n + 1 /\ click'.target \in {"label", "description"}) =>
          \A h \in DOMAIN handles :
              calls'[h] = calls[h] + (IF handles[h] = "active" THEN 1 ELSE 0)]_vars

\* after clicks on both elements, one handle disposed early and one still live
C7_Witness ==
    /\ Len(handles) = 2
    /\ handles[1] = "disposed" /\ handles[2] = "active"
    /\ click.n = 3 /\ click.target = "description"
    /\ calls[1] = 1 /\ calls[2] = 3

----------------------------------------------------------------------------
(* Properties of FastLabelNode, checked under SpecNode *)

\* what the element shows for the setter of the call just made
Shown(n, setter) ==
    CASE setter = "textContent" -> n.element.textContent
      [] setter = "className" -> n.element.className
      [] setter = "title" -> n.element.title
      [] setter = "empty" -> (n.element.marginLeft = "0")

Cached(n, setter) ==
    CASE setter = "textContent" -> n._textContent
      [] setter = "className" -> n._className
      [] setter = "title" -> n._title
      [] setter = "empty" -> n._empty

Setters == {"textContent", "className", "title", "empty"}

\* C8: a setter call writes the element exactly when the node is not disposed and
\* the value differs from the one last applied through that setter (always, when
\* none was applied yet); a call that does not write changes nothing; after
\* dispose no call changes the element or a cached value.
C8_SettersMemoizeUntilDisposed ==
    [][/\ nodeCall'.setter \in Setters =>
            LET setter == nodeCall'.setter IN
            /\ nodeCall'.wrote <=>
                   /\ ~node.disposed
                   /\ \/ setter \notin nodeCall.ever
                      \/ nodeCall'.arg # Shown(node, setter)
            /\ nodeCall'.wrote =>
                   /\ Shown(node', setter) = nodeCall'.arg
                   /\ Cached(node', setter) = Some(nodeCall'.arg)
                   /\ \A other \in Setters \ {setter} :
                          /\ Shown(node', other) = Shown(node, other)
                          /\ Cached(node', other) = Cached(node, other)
            /\ ~nodeCall'.wrote => node' = node
       /\ node.disposed => node' = node
      ]_vars

\* a setter called after dispose with a value the element does not show
C8_Witness ==
    /\ node.disposed
    /\ nodeCall.setter = "empty" /\ nodeCall.arg = TRUE /\ ~nodeCall.wrote
    /\ nodeCall.ever = Setters
    /\ node.element.marginLeft = ""
    /\ node.element.textContent = <<"b">>

----------------------------------------------------------------------------
(* Properties of FileLabel, checked under SpecFile *)

\* C9 as stated: label = basename, title = the full path, description = the
\* formatted parent directory, empty when the parent is the path root '/'.  (What
\* the statement asks of a path without any parent, dirname '.', is left open.)
C9_DescriptionOmittedAtRoot ==
    (last.op = "setFile" /\ ~domNode.disposed) =>
        /\ labelNode.element.textContent = Basename(last.file)
        /\ domNode.element.title = last.file
        /\ Dirname(last.file) = <<"/">> => descriptionNode.element.textContent = <<>>
        /\ Dirname(last.file) \notin {<<"/">>, <<".">>, <<>>} =>
               descriptionNode.element.textContent = PathLabel(Dirname(last.file))

\* C9 amended: the description is empty exactly when the path has no parent
\* directory (dirname yields '.' or ''); a root parent is formatted and shown.
C9_DescriptionOmittedWithoutParent ==
    (last.op = "setFile" /\ ~domNode.disposed) =>
        /\ labelNode.element.textContent = Basename(last.file)
        /\ domNode.element.title = last.file
        /\ descriptionNode.element.textContent =
               (IF Dirname(last.file) \in {<<>>, <<".">>} THEN <<>>
                ELSE PathLabel(Dirname(last.file)))
        /\ descriptionNode.element.marginLeft = "0" <=> Dirname(last.file) \in {<<>>, <<".">>}

\* a file directly under the root, set after a file of the same name without a
\* parent
C9_Witness ==
    /\ last.op = "setFile" /\ ~domNode.disposed
    /\ last.file = <<"/", "a">>
    /\ "label.textContent" \notin writes
    /\ {"description.textContent", "description.style.marginLeft"} \subseteq writes
    /\ labelNode.element.textContent = <<"a">>
    /\ descriptionNode.element.textContent = <<"label:", "/">>

====
